---- MODULE Spec2Model ----
(***************************************************************************)
(* AURA: metadata side-channel (metadata.rs), adaptive conversation        *)
(* acceleration (conversation.rs), template library (template_library.rs)  *)
(* and binary protocol (compressor.rs).  Objects are record values,        *)
(* methods are operators on them, and each action applies one method call. *)
(***************************************************************************)
EXTENDS Integers, Sequences, FiniteSets, TLC

VARIABLES
    cc,         \* a stand-alone ConversationCache
    acc,        \* a ConversationAccelerator (owns its own ConversationCache)
    plat,       \* a PlatformAccelerator
    entry,      \* a MetadataEntry under serialisation
    wire,       \* the bytes last produced by to_bytes / handed to from_bytes
    clock,      \* the last value Instant::now() returned
    ret,        \* the last call: its name, arguments and return value (under a
                \* field named after the type returned)
    nCalls,     \* history: number of method calls made so far
    nLookups,   \* history: number of ConversationCache::lookup calls
    nFound,     \* history: number of those that returned Some
    storeRun,   \* history: the run of stores made since construction
    updates,    \* history: the metadata of every update_global_patterns call
    meta,       \* a metadata sequence handed to the metadata functions
    rawBytes,   \* untrusted bytes handed to MetadataEntry::from_bytes
    comp,       \* a Compressor (owns its TemplateLibrary)
    inFlight    \* the payload in flight: produced by compress or received

codecVars == <<meta, rawBytes, comp, inFlight>>

vars == <<cc, acc, plat, entry, wire, clock, ret, nCalls, nLookups, nFound, storeRun, updates,
          meta, rawBytes, comp, inFlight>>

----------------------------------------------------------------------------
(* Bounds of the model *)

MaxCap == 2         \* capacities 0..MaxCap of the stand-alone cache
MaxOps == 4         \* calls made on the stand-alone cache
MaxMsgs == 6        \* process_message calls on the accelerator
MaxUpdates == 4     \* update_global_patterns calls on the platform accelerator
MaxN == 3           \* limit / num_predictions arguments 0..MaxN

(* Option<T> *)
None == <<>>
Some(x) == <<x>>

----------------------------------------------------------------------------
(* metadata.rs *)

MetadataKinds == {"Literal", "Template", "LZ77", "Semantic", "Fallback"}

\* `kind as u8`
KindAsU8(kind) ==
    CASE kind = "Literal" -> 0
      [] kind = "Template" -> 1
      [] kind = "LZ77" -> 2
      [] kind = "Semantic" -> 3
      [] kind = "Fallback" -> 4

MetadataKind_try_from_Defaulting(value) ==
    CASE value = 0 -> Some("Literal")
      [] value = 1 -> Some("Template")
      [] value = 2 -> Some("LZ77")
      [] value = 3 -> Some("Semantic")
      [] OTHER -> Some("Fallback")

\* TryFrom<u8> for MetadataKind: Ok(kind) as Some(kind), Err as None
MetadataKind_try_from(value) ==
    CASE value = 0 -> Some("Literal")
      [] value = 1 -> Some("Template")
      [] value = 2 -> Some("LZ77")
      [] value = 3 -> Some("Semantic")
      [] value = 4 -> Some("Fallback")
      [] OTHER -> None

\* MetadataEntry::new: flags start at 0
MetadataEntry_new(token_index, kind, value) ==
    [token_index |-> token_index, kind |-> kind, value |-> value, flags |-> 0]

\* u16::to_be_bytes / u16::from_be_bytes
U16ToBe(x) == <<x \div 256, x % 256>>
U16FromBe(hi, lo) == hi * 256 + lo

to_bytes_LittleEndian(e) ==
    <<e.token_index % 256, e.token_index \div 256, KindAsU8(e.kind)>>
        \o <<e.value % 256, e.value \div 256>> \o <<e.flags>>

to_bytes(e) ==
    U16ToBe(e.token_index) \o <<KindAsU8(e.kind)>> \o U16ToBe(e.value) \o <<e.flags>>

\* Ok(entry) as Some(entry), Err(..) as None
from_bytes(bytes) ==
    IF Len(bytes) # 6 THEN None
    ELSE LET kind == MetadataKind_try_from(bytes[3])
         IN IF kind = None THEN None
            ELSE Some([token_index |-> U16FromBe(bytes[1], bytes[2]),
                       kind |-> kind[1],
                       value |-> U16FromBe(bytes[4], bytes[5]),
                       flags |-> bytes[6]])

(* u32 values are pairs <<high 16 bits, low 16 bits>> *)
RECURSIVE BitXor(_, _)
BitXor(a, b) ==
    IF a = 0 THEN b
    ELSE IF b = 0 THEN a
    ELSE ((a + b) % 2) + 2 * BitXor(a \div 2, b \div 2)

RECURSIVE BitOr(_, _)
BitOr(a, b) ==
    IF a = 0 THEN b
    ELSE IF b = 0 THEN a
    ELSE (IF a % 2 = 1 \/ b % 2 = 1 THEN 1 ELSE 0) + 2 * BitOr(a \div 2, b \div 2)

U32FromU16(x) == <<0, x>>
U32Shl16(x) == <<x[2], 0>>
U32Or(x, y) == <<BitOr(x[1], y[1]), BitOr(x[2], y[2])>>
U32Xor(x, y) == <<BitXor(x[1], y[1]), BitXor(x[2], y[2])>>

rotate_left_Unrotated(x, n) == x

\* u32::rotate_left
RECURSIVE rotate_left(_, _)
rotate_left(x, n) ==
    IF n = 0 THEN x
    ELSE rotate_left(<<((x[1] * 2) % 65536) + (x[2] \div 32768),
                       ((x[2] * 2) % 65536) + (x[1] \div 32768)>>, n - 1)

RECURSIVE SignatureFrom(_, _, _)
SignatureFrom(metadata, i, signature) ==
    IF i > Len(metadata) THEN signature
    ELSE LET e == metadata[i]
             entry_hash == U32Or(U32Shl16(U32FromU16(KindAsU8(e.kind))), U32FromU16(e.value))
             shift == (i - 1) % 32
         IN SignatureFrom(metadata, i + 1, U32Xor(signature, rotate_left(entry_hash, shift)))

compute_metadata_signature(metadata) == SignatureFrom(metadata, 1, <<0, 0>>)

classify_intent_from_metadata_LastEntry(metadata) ==
    IF metadata = <<>> THEN "unknown"
    ELSE LET first == metadata[Len(metadata)]
         IN CASE first.kind = "Template" ->
                    (CASE first.value \in {1, 3, 5, 7} -> "affirmative"
                       [] first.value \in {2, 4} -> "apology"
                       [] first.value = 12 -> "thinking"
                       [] first.value \in {10, 13} -> "question"
                       [] OTHER -> "unknown")
              [] first.kind = "Literal" -> "custom"
              [] first.kind = "Fallback" -> "complex"
              [] OTHER -> "unknown"

classify_intent_from_metadata(metadata) ==
    IF metadata = <<>> THEN "unknown"
    ELSE LET first == metadata[1]
         IN CASE first.kind = "Template" ->
                    (CASE first.value \in {1, 3, 5, 7} -> "affirmative"
                       [] first.value \in {2, 4} -> "apology"
                       [] first.value = 12 -> "thinking"
                       [] first.value \in {10, 13} -> "question"
                       [] OTHER -> "unknown")
              [] first.kind = "Literal" -> "custom"
              [] first.kind = "Fallback" -> "complex"
              [] OTHER -> "unknown"

----------------------------------------------------------------------------
(* Inputs *)

EntryA == MetadataEntry_new(0, "Template", 7)
EntryB == MetadataEntry_new(1, "Literal", 50)

MetaA == <<EntryA>>
MetaA2 == <<[token_index |-> 42, kind |-> "Template", value |-> 7, flags |-> 1]>>
MetaAB == <<EntryA, EntryB>>
MetaBA == <<EntryB, EntryA>>

\* metadata sequences given to the stand-alone cache: three signatures,
\* MetaA and MetaA2 sharing one
CacheMetas == {MetaA, MetaA2, MetaAB, MetaBA}

\* (compressed_payload, decompressed_text) arguments
Contents ==
    { [payload |-> <<1, 2, 3, 4>>, text |-> Some("test")],
      [payload |-> <<9>>, text |-> None] }

\* what the next Instant::now() may return: the clock never goes back
Now(t) == {t, t + 1}

----------------------------------------------------------------------------
(* conversation.rs: CachedPattern, ConversationCache *)

CachedPattern_new(signature, metadata, compressed_payload, decompressed_text, now) ==
    [signature |-> signature,
     metadata |-> metadata,
     compressed_payload |-> compressed_payload,
     decompressed_text |-> decompressed_text,
     hit_count |-> 0,
     last_used |-> now]

ConversationCache_new(max_size) ==
    [max_size |-> max_size, cache |-> <<>>, hit_count |-> 0, miss_count |-> 0]

\* HashMap::len, contains_key, insert, remove on a map held as a function
MapLen(m) == Cardinality(DOMAIN m)
MapInsert_Lost(m, k, v) == m
MapInsert(m, k, v) == [x \in (DOMAIN m) \cup {k} |-> IF x = k THEN v ELSE m[x]]
MapRemove(m, k) == [x \in (DOMAIN m) \ {k} |-> m[x]]

lookup_NoMissCount(self, metadata, now) ==
    LET signature == compute_metadata_signature(metadata)
    IN IF signature \in DOMAIN self.cache
       THEN LET pattern == [self.cache[signature] EXCEPT
                               !.hit_count = @ + 1, !.last_used = now]
            IN [self |-> [self EXCEPT !.cache[signature] = pattern,
                                      !.hit_count = @ + 1],
                result |-> Some(pattern)]
       ELSE [self |-> self, result |-> None]

\* returns the cache after the call and the Option<&mut CachedPattern>
lookup_NoRefresh(self, metadata, now) ==
    LET signature == compute_metadata_signature(metadata)
    IN IF signature \in DOMAIN self.cache
       THEN LET pattern == [self.cache[signature] EXCEPT !.hit_count = @ + 1]
            IN [self |-> [self EXCEPT !.cache[signature] = pattern,
                                      !.hit_count = @ + 1],
                result |-> Some(pattern)]
       ELSE [self |-> [self EXCEPT !.miss_count = @ + 1], result |-> None]

lookup_ComparesMetadata(self, metadata, now) ==
    LET signature == compute_metadata_signature(metadata)
    IN IF signature \in DOMAIN self.cache /\ self.cache[signature].metadata = metadata
       THEN LET pattern == [self.cache[signature] EXCEPT
                               !.hit_count = @ + 1, !.last_used = now]
            IN [self |-> [self EXCEPT !.cache[signature] = pattern,
                                      !.hit_count = @ + 1],
                result |-> Some(pattern)]
       ELSE [self |-> [self EXCEPT !.miss_count = @ + 1], result |-> None]

lookup(self, metadata, now) ==
    LET signature == compute_metadata_signature(metadata)
    IN IF signature \in DOMAIN self.cache
       THEN LET pattern == [self.cache[signature] EXCEPT
                               !.hit_count = @ + 1, !.last_used = now]
            IN [self |-> [self EXCEPT !.cache[signature] = pattern,
                                      !.hit_count = @ + 1],
                result |-> Some(pattern)]
       ELSE [self |-> [self EXCEPT !.miss_count = @ + 1], result |-> None]

LruSignatures_Newest(cache) ==
    {s \in DOMAIN cache : \A o \in DOMAIN cache : cache[s].last_used >= cache[o].last_used}

\* the entries whose last_used is the minimum
LruSignatures(cache) ==
    {s \in DOMAIN cache : \A o \in DOMAIN cache : cache[s].last_used <= cache[o].last_used}

\* iter().min_by_key(|(_, pattern)| pattern.last_used).map(|(sig, _)| *sig):
\* None on an empty map, else the first minimum in the map's iteration order,
\* which may be any entry with the minimum key
min_by_last_used(cache) ==
    IF DOMAIN cache = {} THEN {None} ELSE {Some(s) : s \in LruSignatures(cache)}

\* the caches the call may leave (one per outcome of min_by_key)
store_KeepsHitCount(self, metadata, compressed_payload, decompressed_text, now) ==
    LET signature == compute_metadata_signature(metadata)
        lru_signatures ==
            IF MapLen(self.cache) >= self.max_size /\ signature \notin DOMAIN self.cache
            THEN min_by_last_used(self.cache)
            ELSE {None}
        Evicted(lru_signature) ==
            IF lru_signature # None THEN MapRemove(self.cache, lru_signature[1])
            ELSE self.cache
        fresh == CachedPattern_new(signature, metadata, compressed_payload,
                                   decompressed_text, now)
        pattern == IF signature \in DOMAIN self.cache
                   THEN [fresh EXCEPT !.hit_count = self.cache[signature].hit_count]
                   ELSE fresh
    IN {[self EXCEPT !.cache = MapInsert(Evicted(lru), signature, pattern)] :
           lru \in lru_signatures}

store(self, metadata, compressed_payload, decompressed_text, now) ==
    LET signature == compute_metadata_signature(metadata)
        lru_signatures ==
            IF MapLen(self.cache) >= self.max_size /\ signature \notin DOMAIN self.cache
            THEN min_by_last_used(self.cache)
            ELSE {None}
        Evicted(lru_signature) ==
            IF lru_signature # None THEN MapRemove(self.cache, lru_signature[1])
            ELSE self.cache
        pattern == CachedPattern_new(signature, metadata, compressed_payload,
                                     decompressed_text, now)
    IN {[self EXCEPT !.cache = MapInsert(Evicted(lru), signature, pattern)] :
           lru \in lru_signatures}

\* a rational <<numerator, denominator>> for the f64 quotient
get_hit_rate(self) ==
    LET total == self.hit_count + self.miss_count
    IN IF total > 0 THEN <<self.hit_count, total>> ELSE <<0, 1>>

----------------------------------------------------------------------------
(* conversation.rs: ConversationAccelerator *)

\* ConversationCache::new(1000) in ConversationAccelerator::new
AcceleratorCacheSize == 1000

\* the non-cached baseline of calculate_speedup, in milliseconds
Baseline == 13

ConversationAccelerator_new(enable_platform_learning, enable_predictive_preload) ==
    [cache |-> ConversationCache_new(AcceleratorCacheSize),
     message_count |-> 0,
     enable_platform_learning |-> enable_platform_learning,
     enable_predictive_preload |-> enable_predictive_preload,
     platform_patterns |-> <<>>,
     processing_times |-> <<>>]

\* *map.entry(k).or_insert(0) += 1
MapIncrement(m, k) ==
    [x \in (DOMAIN m) \cup {k} |-> IF x = k THEN (IF k \in DOMAIN m THEN m[k] + 1 ELSE 1)
                                   ELSE m[x]]

\* a rational <<numerator, denominator>> for the f64 quotient
calculate_speedup(current_time_ms) ==
    IF current_time_ms > 0 THEN <<Baseline, current_time_ms>> ELSE <<1, 1>>

process_message_SuppliedText(self, metadata, compressed_payload, decompressed_text, times) ==
    LET start_time == times[1]
        counted == [self EXCEPT !.message_count = @ + 1]
        cached == lookup(counted.cache, metadata, times[2])
        processing_time == times[3] - start_time
    IN IF cached.result # None
       THEN {[self |-> [counted EXCEPT !.cache = cached.self,
                                       !.processing_times = Append(@, processing_time)],
              result |-> [cache_hit |-> TRUE,
                          processing_time_ms |-> processing_time,
                          decompressed_text |-> decompressed_text,
                          speedup |-> calculate_speedup(processing_time)]]}
       ELSE {[self |-> [counted EXCEPT
                           !.cache = stored,
                           !.platform_patterns =
                               IF counted.enable_platform_learning
                               THEN MapIncrement(@, compute_metadata_signature(metadata))
                               ELSE @,
                           !.processing_times = Append(@, processing_time)],
              result |-> [cache_hit |-> FALSE,
                          processing_time_ms |-> processing_time,
                          decompressed_text |-> decompressed_text,
                          speedup |-> <<1, 1>>]] :
                stored \in store(cached.self, metadata, compressed_payload,
                                 decompressed_text, times[2])}

\* times: what the three Instant::now() reads of the call return, in order
\* (start_time, the lookup's or CachedPattern::new's, start_time.elapsed()).
\* The (accelerator, ProcessingResult) pairs the call may leave.
process_message_UntimedHit(self, metadata, compressed_payload, decompressed_text, times) ==
    LET start_time == times[1]
        counted == [self EXCEPT !.message_count = @ + 1]
        cached == lookup(counted.cache, metadata, times[2])
        processing_time == times[3] - start_time
    IN IF cached.result # None
       THEN {[self |-> [counted EXCEPT !.cache = cached.self],
              result |-> [cache_hit |-> TRUE,
                          processing_time_ms |-> processing_time,
                          decompressed_text |-> cached.result[1].decompressed_text,
                          speedup |-> calculate_speedup(processing_time)]]}
       ELSE {[self |-> [counted EXCEPT
                           !.cache = stored,
                           !.platform_patterns =
                               IF counted.enable_platform_learning
                               THEN MapIncrement(@, compute_metadata_signature(metadata))
                               ELSE @,
                           !.processing_times = Append(@, processing_time)],
              result |-> [cache_hit |-> FALSE,
                          processing_time_ms |-> processing_time,
                          decompressed_text |-> decompressed_text,
                          speedup |-> <<1, 1>>]] :
                stored \in store(cached.self, metadata, compressed_payload,
                                 decompressed_text, times[2])}

process_message_CountsHits(self, metadata, compressed_payload, decompressed_text, times) ==
    LET start_time == times[1]
        counted == [self EXCEPT !.message_count = @ + 1]
        cached == lookup(counted.cache, metadata, times[2])
        processing_time == times[3] - start_time
    IN IF cached.result # None
       THEN {[self |-> [counted EXCEPT
                           !.cache = cached.self,
                           !.platform_patterns =
                               IF counted.enable_platform_learning
                               THEN MapIncrement(@, compute_metadata_signature(metadata))
                               ELSE @,
                           !.processing_times = Append(@, processing_time)],
              result |-> [cache_hit |-> TRUE,
                          processing_time_ms |-> processing_time,
                          decompressed_text |-> cached.result[1].decompressed_text,
                          speedup |-> calculate_speedup(processing_time)]]}
       ELSE {[self |-> [counted EXCEPT
                           !.cache = stored,
                           !.platform_patterns =
                               IF counted.enable_platform_learning
                               THEN MapIncrement(@, compute_metadata_signature(metadata))
                               ELSE @,
                           !.processing_times = Append(@, processing_time)],
              result |-> [cache_hit |-> FALSE,
                          processing_time_ms |-> processing_time,
                          decompressed_text |-> decompressed_text,
                          speedup |-> <<1, 1>>]] :
                stored \in store(cached.self, metadata, compressed_payload,
                                 decompressed_text, times[2])}

process_message(self, metadata, compressed_payload, decompressed_text, times) ==
    LET start_time == times[1]
        counted == [self EXCEPT !.message_count = @ + 1]
        cached == lookup(counted.cache, metadata, times[2])
        processing_time == times[3] - start_time
    IN IF cached.result # None
       THEN {[self |-> [counted EXCEPT !.cache = cached.self,
                                       !.processing_times = Append(@, processing_time)],
              result |-> [cache_hit |-> TRUE,
                          processing_time_ms |-> processing_time,
                          decompressed_text |-> cached.result[1].decompressed_text,
                          speedup |-> calculate_speedup(processing_time)]]}
       ELSE {[self |-> [counted EXCEPT
                           !.cache = stored,
                           !.platform_patterns =
                               IF counted.enable_platform_learning
                               THEN MapIncrement(@, compute_metadata_signature(metadata))
                               ELSE @,
                           !.processing_times = Append(@, processing_time)],
              result |-> [cache_hit |-> FALSE,
                          processing_time_ms |-> processing_time,
                          decompressed_text |-> decompressed_text,
                          speedup |-> <<1, 1>>]] :
                stored \in store(cached.self, metadata, compressed_payload,
                                 decompressed_text, times[2])}

\* HashMap::iter(): the keys in any order
RECURSIVE IterOrders(_)
IterOrders(keys) ==
    IF keys = {} THEN {<<>>}
    ELSE UNION {{<<k>> \o rest : rest \in IterOrders(keys \ {k})} : k \in keys}

\* one insertion of a stable sort_by(|a, b| b.1.cmp(a.1)): x goes after every
\* element whose count is not smaller than its own
RECURSIVE InsertByCountAsc(_, _, _)
InsertByCountAsc(sorted, x, counts) ==
    IF sorted = <<>> THEN <<x>>
    ELSE IF counts[Head(sorted)] <= counts[x]
         THEN <<Head(sorted)>> \o InsertByCountAsc(Tail(sorted), x, counts)
         ELSE <<x>> \o sorted

RECURSIVE InsertByCountDesc(_, _, _)
InsertByCountDesc(sorted, x, counts) ==
    IF sorted = <<>> THEN <<x>>
    ELSE IF counts[Head(sorted)] >= counts[x]
         THEN <<Head(sorted)>> \o InsertByCountDesc(Tail(sorted), x, counts)
         ELSE <<x>> \o sorted

RECURSIVE SortByCountDesc(_, _)
SortByCountDesc(order, counts) ==
    IF order = <<>> THEN <<>>
    ELSE InsertByCountDesc(SortByCountDesc(SubSeq(order, 1, Len(order) - 1), counts),
                           order[Len(order)], counts)

\* Iterator::take
Take(seq, n) == SubSeq(seq, 1, IF n < Len(seq) THEN n ELSE Len(seq))

predict_next_patterns_IgnoresFlag(self, current_metadata, num_predictions) ==
    IF DOMAIN self.platform_patterns # {}
    THEN {Take(SortByCountDesc(order, self.platform_patterns), num_predictions) :
             order \in IterOrders(DOMAIN self.platform_patterns)}
    ELSE {<<>>}

\* the Vec<u32> results the call may return (one per iteration order)
predict_next_patterns(self, current_metadata, num_predictions) ==
    IF ~self.enable_predictive_preload THEN {<<>>}
    ELSE IF DOMAIN self.platform_patterns # {}
         THEN {Take(SortByCountDesc(order, self.platform_patterns), num_predictions) :
                  order \in IterOrders(DOMAIN self.platform_patterns)}
         ELSE {<<>>}

\* r > q for rationals with positive denominators
RatGt(r, q) == r[1] * q[2] > q[1] * r[2]

classify_conversation_type_Inclusive(self) ==
    IF self.message_count < 3 THEN "unknown"
    ELSE LET cache_hit_rate == get_hit_rate(self.cache)
         IN IF ~RatGt(<<8, 10>>, cache_hit_rate) THEN "qa"
            ELSE IF ~RatGt(<<5, 10>>, cache_hit_rate) THEN "chat"
            ELSE "support"

\* the f64 comparisons agree with the exact ones: the quotient is correctly
\* rounded, 0.5 is exact, and the literal 0.8 is the f64 that 4/5 rounds to
classify_conversation_type(self) ==
    IF self.message_count < 3 THEN "unknown"
    ELSE LET cache_hit_rate == get_hit_rate(self.cache)
         IN IF RatGt(cache_hit_rate, <<8, 10>>) THEN "qa"
            ELSE IF RatGt(cache_hit_rate, <<5, 10>>) THEN "chat"
            ELSE "support"

----------------------------------------------------------------------------
(* conversation.rs: PlatformAccelerator *)

PlatformAccelerator_new == [global_patterns |-> <<>>, conversation_types |-> <<>>]

update_global_patterns(self, metadata) ==
    LET signature == compute_metadata_signature(metadata)
    IN [self EXCEPT !.global_patterns = MapIncrement(@, signature)]

\* the Vec<u32> results the call may return (one per iteration order)
get_top_patterns(self, limit) ==
    {Take(SortByCountDesc(order, self.global_patterns), limit) :
        order \in IterOrders(DOMAIN self.global_patterns)}

\* conversation_types.values().sum()
RECURSIVE SumValues(_)
SumValues(m) ==
    IF DOMAIN m = {} THEN 0
    ELSE LET k == CHOOSE x \in DOMAIN m : TRUE
         IN m[k] + SumValues(MapRemove(m, k))

\* the PlatformStats values the call may return
get_platform_stats(self) ==
    {[total_patterns |-> MapLen(self.global_patterns),
      total_conversations |-> SumValues(self.conversation_types),
      conversation_types |-> self.conversation_types,
      top_10_patterns |-> top] : top \in get_top_patterns(self, 10)}

----------------------------------------------------------------------------
(* Strings: a String or &str is the sequence of its UTF-8 bytes *)

\* str::find: the byte offset of the first occurrence
str_find(s, pat) ==
    LET hits == {i \in 0..(Len(s) - Len(pat)) : \A k \in 1..Len(pat) : s[i + k] = pat[k]}
    IN IF hits = {} THEN None ELSE Some(CHOOSE i \in hits : \A j \in hits : i <= j)

\* str::replace: every non-overlapping occurrence, left to right
RECURSIVE ReplaceFrom(_, _, _, _)
ReplaceFrom(s, from, to, i) ==
    IF i > Len(s) THEN <<>>
    ELSE IF i + Len(from) - 1 <= Len(s) /\ \A k \in 1..Len(from) : s[i + k - 1] = from[k]
         THEN to \o ReplaceFrom(s, from, to, i + Len(from))
         ELSE <<s[i]>> \o ReplaceFrom(s, from, to, i + 1)

str_replace(s, from, to) == ReplaceFrom(s, from, to, 1)

\* str::split(|c| c == '{' || c == '}')
RECURSIVE SplitFrom(_, _, _, _)
SplitFrom(s, i, part, parts) ==
    IF i > Len(s) THEN Append(parts, part)
    ELSE IF s[i] \in {123, 125} THEN SplitFrom(s, i + 1, <<>>, Append(parts, part))
    ELSE SplitFrom(s, i + 1, Append(part, s[i]), parts)

split_braces(s) == SplitFrom(s, 1, <<>>, <<>>)

\* the decimal digits of i, as format!("{}", i) writes them
RECURSIVE Decimal(_)
Decimal(i) == IF i < 10 THEN <<48 + i>> ELSE Decimal(i \div 10) \o <<48 + (i % 10)>>

\* format!("{{{}}}", i)
Placeholder(i) == <<123>> \o Decimal(i) \o <<125>>

\* String::from_utf8: Ok(string) as Some(bytes), Err as None
Continuation(c) == c \in 128..191

RECURSIVE Utf8From(_, _)
Utf8From(s, i) ==
    IF i > Len(s) THEN TRUE
    ELSE LET c == s[i]
             more(n) == i + n <= Len(s) /\ \A k \in 1..n : Continuation(s[i + k])
         IN CASE c < 128 -> Utf8From(s, i + 1)
              [] c \in 194..223 -> more(1) /\ Utf8From(s, i + 2)
              [] c = 224 -> more(2) /\ s[i + 1] >= 160 /\ Utf8From(s, i + 3)
              [] c \in (225..236) \cup {238, 239} -> more(2) /\ Utf8From(s, i + 3)
              [] c = 237 -> more(2) /\ s[i + 1] <= 159 /\ Utf8From(s, i + 3)
              [] c = 240 -> more(3) /\ s[i + 1] >= 144 /\ Utf8From(s, i + 4)
              [] c \in 241..243 -> more(3) /\ Utf8From(s, i + 4)
              [] c = 244 -> more(3) /\ s[i + 1] <= 143 /\ Utf8From(s, i + 4)
              [] OTHER -> FALSE

from_utf8(s) == IF Utf8From(s, 1) THEN Some(s) ELSE None

(* Result<T, AuraError>; the message an error carries is left out *)
Ok(v) == [ok |-> TRUE, value |-> v]
Err(e) == [ok |-> FALSE, error |-> e]
InvalidPayload == [kind |-> "InvalidPayload"]
DecompressionFailed == [kind |-> "DecompressionFailed"]
UnknownMethod(byte) == [kind |-> "UnknownMethod", byte |-> byte]
TemplateNotFound(id) == [kind |-> "TemplateNotFound", id |-> id]
\* an index or a slice range outside the buffer panics
Panicked == [ok |-> FALSE, panic |-> "index out of bounds"]

----------------------------------------------------------------------------
(* template_library.rs *)

\* load_core_templates
CoreTemplates ==
    [id \in 0..19 |->
          \* "I don't have access to {0}. {1}"
        CASE id = 0 ->
              <<73, 32, 100, 111, 110, 39, 116, 32, 104, 97, 118, 101, 32, 97, 99, 99, 101, 115, 115, 32, 116, 111, 32, 123, 48, 125, 46, 32, 123, 49, 125>>
          \* "I cannot {0}."
          [] id = 1 ->
              <<73, 32, 99, 97, 110, 110, 111, 116, 32, 123, 48, 125, 46>>
          \* "I'm unable to {0} because {1}."
          [] id = 2 ->
              <<73, 39, 109, 32, 117, 110, 97, 98, 108, 101, 32, 116, 111, 32, 123, 48, 125, 32, 98, 101, 99, 97, 117, 115, 101, 32, 123, 49, 125, 46>>
          \* "I don't have the ability to {0}."
          [] id = 3 ->
              <<73, 32, 100, 111, 110, 39, 116, 32, 104, 97, 118, 101, 32, 116, 104, 101, 32, 97, 98, 105, 108, 105, 116, 121, 32, 116, 111, 32, 123, 48, 125, 46>>
          \* "I'm not able to {0}."
          [] id = 4 ->
              <<73, 39, 109, 32, 110, 111, 116, 32, 97, 98, 108, 101, 32, 116, 111, 32, 123, 48, 125, 46>>
          \* "I cannot {0} as I {1}."
          [] id = 5 ->
              <<73, 32, 99, 97, 110, 110, 111, 116, 32, 123, 48, 125, 32, 97, 115, 32, 73, 32, 123, 49, 125, 46>>
          \* "I'm sorry, but I cannot {0}."
          [] id = 6 ->
              <<73, 39, 109, 32, 115, 111, 114, 114, 121, 44, 32, 98, 117, 116, 32, 73, 32, 99, 97, 110, 110, 111, 116, 32, 123, 48, 125, 46>>
          \* "I don't have {0}."
          [] id = 7 ->
              <<73, 32, 100, 111, 110, 39, 116, 32, 104, 97, 118, 101, 32, 123, 48, 125, 46>>
          \* "Unfortunately, I cannot {0}."
          [] id = 8 ->
              <<85, 110, 102, 111, 114, 116, 117, 110, 97, 116, 101, 108, 121, 44, 32, 73, 32, 99, 97, 110, 110, 111, 116, 32, 123, 48, 125, 46>>
          \* "I'm unable to {0}."
          [] id = 9 ->
              <<73, 39, 109, 32, 117, 110, 97, 98, 108, 101, 32, 116, 111, 32, 123, 48, 125, 46>>
          \* "The {0} of {1} is {2}."
          [] id = 10 ->
              <<84, 104, 101, 32, 123, 48, 125, 32, 111, 102, 32, 123, 49, 125, 32, 105, 115, 32, 123, 50, 125, 46>>
          \* "{0} is {1}."
          [] id = 11 ->
              <<123, 48, 125, 32, 105, 115, 32, 123, 49, 125, 46>>
          \* "The capital of {0} is {1}."
          [] id = 12 ->
              <<84, 104, 101, 32, 99, 97, 112, 105, 116, 97, 108, 32, 111, 102, 32, 123, 48, 125, 32, 105, 115, 32, 123, 49, 125, 46>>
          \* "{0} was born in {1}."
          [] id = 13 ->
              <<123, 48, 125, 32, 119, 97, 115, 32, 98, 111, 114, 110, 32, 105, 110, 32, 123, 49, 125, 46>>
          \* "The population of {0} is approximately {1}."
          [] id = 14 ->
              <<84, 104, 101, 32, 112, 111, 112, 117, 108, 97, 116, 105, 111, 110, 32, 111, 102, 32, 123, 48, 125, 32, 105, 115, 32, 97, 112, 112, 114, 111, 120, 105, 109, 97, 116, 101, 108, 121, 32, 123, 49, 125, 46>>
          \* "{0} is located in {1}."
          [] id = 15 ->
              <<123, 48, 125, 32, 105, 115, 32, 108, 111, 99, 97, 116, 101, 100, 32, 105, 110, 32, 123, 49, 125, 46>>
          \* "The year {0} was {1}."
          [] id = 16 ->
              <<84, 104, 101, 32, 121, 101, 97, 114, 32, 123, 48, 125, 32, 119, 97, 115, 32, 123, 49, 125, 46>>
          \* "{0} occurred in {1}."
          [] id = 17 ->
              <<123, 48, 125, 32, 111, 99, 99, 117, 114, 114, 101, 100, 32, 105, 110, 32, 123, 49, 125, 46>>
          \* "The distance from {0} to {1} is {2}."
          [] id = 18 ->
              <<84, 104, 101, 32, 100, 105, 115, 116, 97, 110, 99, 101, 32, 102, 114, 111, 109, 32, 123, 48, 125, 32, 116, 111, 32, 123, 49, 125, 32, 105, 115, 32, 123, 50, 125, 46>>
          \* "{0} is known for {1}."
          [] id = 19 ->
              <<123, 48, 125, 32, 105, 115, 32, 107, 110, 111, 119, 110, 32, 102, 111, 114, 32, 123, 49, 125, 46>>]

TemplateLibrary_new == [templates |-> CoreTemplates]

register(self, template_id, pattern) ==
    [self EXCEPT !.templates = MapInsert(self.templates, template_id, pattern)]

RECURSIVE FormatFrom_Descending(_, _, _)
FormatFrom_Descending(result, slots, i) ==
    IF i >= Len(slots) THEN result
    ELSE str_replace(FormatFrom_Descending(result, slots, i + 1), Placeholder(i), slots[i + 1])

RECURSIVE FormatFrom(_, _, _)
FormatFrom(result, slots, i) ==
    IF i >= Len(slots) THEN result
    ELSE FormatFrom(str_replace(result, Placeholder(i), slots[i + 1]), slots, i + 1)

format_template(self, template_id, slots) ==
    IF template_id \notin DOMAIN self.templates THEN Err(TemplateNotFound(template_id))
    ELSE Ok(FormatFrom(self.templates[template_id], slots, 0))

\* the loop of extract_slots from part i on (i counts from 0, as enumerate does)
RECURSIVE ExtractFrom(_, _, _, _, _)
ExtractFrom(text, parts, i, text_pos, slots) ==
    IF i >= Len(parts) THEN Some(slots)
    ELSE LET part == parts[i + 1]
         IN IF part = <<>> THEN ExtractFrom(text, parts, i + 1, text_pos, slots)
            ELSE IF i % 2 = 1 THEN ExtractFrom(text, parts, i + 1, text_pos, slots)
            ELSE LET found == str_find(SubSeq(text, text_pos + 1, Len(text)), part)
                 IN IF found = None THEN None
                    ELSE LET pos == found[1]
                         IN ExtractFrom(text, parts, i + 1, pos + text_pos + Len(part),
                                IF i > 0 /\ text_pos < pos + text_pos
                                THEN Append(slots, SubSeq(text, text_pos + 1, pos + text_pos))
                                ELSE slots)

extract_slots(text, pattern) == ExtractFrom(text, split_braces(pattern), 0, 0, <<>>)

\* The templates are visited in the HashMap's order, which is arbitrary: any
\* template that matches can be the first to match.
match_template(self, text) ==
    LET matching == {id \in DOMAIN self.templates :
                        extract_slots(text, self.templates[id]) # None}
    IN IF matching = {} THEN {None}
       ELSE {Some(<<id, extract_slots(text, self.templates[id])[1]>>) : id \in matching}

----------------------------------------------------------------------------
(* lib.rs: CompressionMethod *)

CompressionMethod_from_byte_Defaulting(byte) ==
    CASE byte = 0 -> Ok("BinarySemantic")
      [] byte = 1 -> Ok("AuraLite")
      [] byte = 2 -> Ok("Brio")
      [] byte = 3 -> Ok("AuraLiteV2")
      [] OTHER -> Ok("Uncompressed")

CompressionMethod_from_byte(byte) ==
    CASE byte = 0 -> Ok("BinarySemantic")
      [] byte = 1 -> Ok("AuraLite")
      [] byte = 2 -> Ok("Brio")
      [] byte = 3 -> Ok("AuraLiteV2")
      [] byte = 255 -> Ok("Uncompressed")
      [] OTHER -> Err(UnknownMethod(byte))

(* compressor.rs *)

\* Compressor::new with no template store path: the library holds the core
\* templates
Compressor_new(enable_aura, enable_audit_logging, session_id, user_id) ==
    [enable_aura |-> enable_aura,
     template_library |-> TemplateLibrary_new,
     enable_audit_logging |-> enable_audit_logging,
     session_id |-> session_id,
     user_id |-> user_id,
     aura_preference_margin |-> <<1, 10>>]

register_template(self, template_id, pattern) ==
    [self EXCEPT !.template_library = register(self.template_library, template_id, pattern)]

\* (n as u32).to_be_bytes()
U32ToBe(n) == <<(n \div 16777216) % 256, (n \div 65536) % 256, (n \div 256) % 256, n % 256>>

RECURSIVE SlotBytes_LittleEndian(_, _)
SlotBytes_LittleEndian(slots, i) ==
    IF i > Len(slots) THEN <<>>
    ELSE <<(Len(slots[i]) % 65536) % 256, (Len(slots[i]) % 65536) \div 256>> \o slots[i]
             \o SlotBytes_LittleEndian(slots, i + 1)

\* the loop of compress_binary_semantic: each slot's length as u16, big-endian,
\* then its bytes
RECURSIVE SlotBytes(_, _)
SlotBytes(slots, i) ==
    IF i > Len(slots) THEN <<>>
    ELSE U16ToBe(Len(slots[i]) % 65536) \o slots[i] \o SlotBytes(slots, i + 1)

\* template_id as u8, slots.len() as u8
compress_binary_semantic(self, template_id, slots) ==
    Ok(<<0, template_id % 256, Len(slots) % 256>> \o SlotBytes(slots, 1))

compress_auralite_ShortLength(self, text) ==
    Ok(<<1>> \o U16ToBe(Len(text) % 65536) \o text)

compress_auralite(self, text) ==
    Ok(<<1>> \o U32ToBe(Len(text)) \o text)

\* ratio is original_size / compressed_size, kept as the pair
CompressionMetadata(original_size, compressed_size, method, template_ids, timestamp) ==
    [original_size |-> original_size,
     compressed_size |-> compressed_size,
     ratio |-> <<original_size, compressed_size>>,
     method |-> method,
     template_ids |-> template_ids,
     timestamp |-> timestamp]

compress_SuppliedIdAlone(self, text, template_id, slots, timestamp) ==
    LET original_size == Len(text)
        semantic(tid, slot_list) ==
            LET payload == compress_binary_semantic(self, tid, slot_list).value
            IN Ok([payload |-> payload,
                   method |-> "BinarySemantic",
                   metadata |-> CompressionMetadata(original_size, Len(payload),
                                    "binary_semantic", <<tid>>, timestamp)])
    IN IF template_id # None
       THEN {semantic(template_id[1], IF slots # None THEN slots[1] ELSE <<>>)}
       ELSE {IF matched # None
             THEN semantic(matched[1][1], matched[1][2])
             ELSE LET payload == compress_auralite(self, text).value
                  IN Ok([payload |-> payload,
                         method |-> "AuraLite",
                         metadata |-> CompressionMetadata(original_size, Len(payload),
                                          "auralite", <<>>, timestamp)])
               : matched \in match_template(self.template_library, text)}

\* The set of results compress can return: one for each template match_template
\* can return first.  timestamp is the system time read.
compress(self, text, template_id, slots, timestamp) ==
    LET original_size == Len(text)
        semantic(tid, slot_list) ==
            LET payload == compress_binary_semantic(self, tid, slot_list).value
            IN Ok([payload |-> payload,
                   method |-> "BinarySemantic",
                   metadata |-> CompressionMetadata(original_size, Len(payload),
                                    "binary_semantic", <<tid>>, timestamp)])
    IN IF template_id # None /\ slots # None
       THEN {semantic(template_id[1], slots[1])}
       ELSE {IF matched # None
             THEN semantic(matched[1][1], matched[1][2])
             ELSE LET payload == compress_auralite(self, text).value
                  IN Ok([payload |-> payload,
                         method |-> "AuraLite",
                         metadata |-> CompressionMetadata(original_size, Len(payload),
                                          "auralite", <<>>, timestamp)])
               : matched \in match_template(self.template_library, text)}

\* data[i] panics when i is not below data.len(); data[from..to] panics when
\* from > to or to > data.len().  Offsets count from 0 as in the code, so
\* data[i] of the code is data[i + 1] here.
IndexPanics(data, i) == i >= Len(data)
SlicePanics(data, from, to) == from > to \/ to > Len(data)
Slice(data, from, to) == SubSeq(data, from + 1, to)

RECURSIVE ReadSlots_UncheckedData(_, _, _, _)
ReadSlots_UncheckedData(data, slot_count, offset, slots) ==
    IF slot_count = 0 THEN Ok(slots)
    ELSE IF offset + 2 > Len(data) THEN Err(InvalidPayload)
    ELSE IF IndexPanics(data, offset) \/ IndexPanics(data, offset + 1) THEN Panicked
    ELSE LET slot_len == U16FromBe(data[offset + 1], data[offset + 2])
             start == offset + 2
         IN IF SlicePanics(data, start, start + slot_len) THEN Panicked
            ELSE LET slot == from_utf8(Slice(data, start, start + slot_len))
                 IN IF slot = None THEN Err(DecompressionFailed)
                    ELSE ReadSlots_UncheckedData(data, slot_count - 1, start + slot_len,
                                                 Append(slots, slot[1]))

\* the loop of decompress_binary_semantic
RECURSIVE ReadSlots(_, _, _, _)
ReadSlots(data, slot_count, offset, slots) ==
    IF slot_count = 0 THEN Ok(slots)
    ELSE IF offset + 2 > Len(data) THEN Err(InvalidPayload)
    ELSE IF IndexPanics(data, offset) \/ IndexPanics(data, offset + 1) THEN Panicked
    ELSE LET slot_len == U16FromBe(data[offset + 1], data[offset + 2])
             start == offset + 2
         IN IF start + slot_len > Len(data) THEN Err(InvalidPayload)
            ELSE IF SlicePanics(data, start, start + slot_len) THEN Panicked
            ELSE LET slot == from_utf8(Slice(data, start, start + slot_len))
                 IN IF slot = None THEN Err(DecompressionFailed)
                    ELSE ReadSlots(data, slot_count - 1, start + slot_len,
                                   Append(slots, slot[1]))

decompress_binary_semantic(self, data) ==
    IF Len(data) < 2 THEN Err(InvalidPayload)
    ELSE IF IndexPanics(data, 0) \/ IndexPanics(data, 1) THEN Panicked
    ELSE LET template_id == data[1]
             slot_count == data[2]
             slots == ReadSlots(data, slot_count, 2, <<>>)
         IN IF slots.ok
            THEN format_template(self.template_library, template_id, slots.value)
            ELSE slots

\* u32::from_be_bytes, as the pair <<high 16 bits, low 16 bits>>
U32FromBe(b0, b1, b2, b3) == <<U16FromBe(b0, b1), U16FromBe(b2, b3)>>
U32Lt(x, y) == x[1] < y[1] \/ (x[1] = y[1] /\ x[2] < y[2])

decompress_auralite_ExactLength(self, data) ==
    IF Len(data) < 4 THEN Err(InvalidPayload)
    ELSE LET text_len == U32FromBe(data[1], data[2], data[3], data[4])
             room == Len(data) - 4
         IN IF <<room \div 65536, room % 65536>> # text_len THEN Err(InvalidPayload)
            ELSE LET text == from_utf8(Slice(data, 4, Len(data)))
                 IN IF text = None THEN Err(DecompressionFailed) ELSE Ok(text[1])

\* usize is 64 bits wide: 4 + text_len does not wrap, and
\* data.len() < 4 + text_len is data.len() - 4 < text_len once data.len() >= 4
decompress_auralite(self, data) ==
    IF Len(data) < 4 THEN Err(InvalidPayload)
    ELSE IF \E i \in 0..3 : IndexPanics(data, i) THEN Panicked
    ELSE LET text_len == U32FromBe(data[1], data[2], data[3], data[4])
             room == Len(data) - 4
         IN IF U32Lt(<<room \div 65536, room % 65536>>, text_len) THEN Err(InvalidPayload)
            ELSE LET end == 4 + text_len[1] * 65536 + text_len[2]
                 IN IF SlicePanics(data, 4, end) THEN Panicked
                    ELSE LET text == from_utf8(Slice(data, 4, end))
                         IN IF text = None THEN Err(DecompressionFailed) ELSE Ok(text[1])

decompress(self, payload) ==
    IF payload = <<>> THEN Err(InvalidPayload)
    ELSE LET method == CompressionMethod_from_byte(payload[1])
             rest == Slice(payload, 1, Len(payload))
         IN IF ~method.ok THEN method
            ELSE CASE method.value = "BinarySemantic" -> decompress_binary_semantic(self, rest)
                   [] method.value \in {"AuraLite", "AuraLiteV2"} -> decompress_auralite(self, rest)
                   [] method.value = "Uncompressed" ->
                        (IF from_utf8(rest) = None THEN Err(DecompressionFailed) ELSE Ok(rest))
                   [] OTHER -> Err(UnknownMethod(payload[1]))

----------------------------------------------------------------------------
(* Stand-alone cache: ConversationCache::new, then lookup and store calls *)

NoCall == [op |-> "none"]
NoCache == ConversationCache_new(0)
NoRun == [ok |-> FALSE, sigs |-> <<>>, last |-> 0, looked |-> FALSE]

IdleRest ==
    /\ acc = <<>>
    /\ plat = <<>>
    /\ entry = <<>>
    /\ wire = <<>>
    /\ updates = <<>>

IdleCodec ==
    /\ meta = <<>>
    /\ rawBytes = <<>>
    /\ comp = <<>>
    /\ inFlight = <<>>

IdleHistory ==
    /\ clock = 0
    /\ ret = NoCall
    /\ nCalls = 0
    /\ nLookups = 0
    /\ nFound = 0
    /\ storeRun = NoRun

InitCache ==
    /\ \E max_size \in 0..MaxCap : cc = ConversationCache_new(max_size)
    /\ IdleRest
    /\ IdleCodec
    /\ clock = 0
    /\ ret = NoCall
    /\ nCalls = 0
    /\ nLookups = 0
    /\ nFound = 0
    /\ storeRun = [ok |-> TRUE, sigs |-> <<>>, last |-> 0, looked |-> FALSE]

Lookup ==
    /\ acc = <<>>
    /\ nCalls < MaxOps
    /\ \E metadata \in CacheMetas, now \in Now(clock) :
          LET r == lookup(cc, metadata, now)
          IN /\ cc' = r.self
             /\ clock' = now
             /\ ret' = [op |-> "lookup", metadata |-> metadata, result |-> r.result]
             /\ nFound' = IF r.result # None THEN nFound + 1 ELSE nFound
    /\ nCalls' = nCalls + 1
    /\ nLookups' = nLookups + 1
    /\ storeRun' = [storeRun EXCEPT !.looked = storeRun.ok]
    /\ UNCHANGED codecVars
    /\ UNCHANGED <<acc, plat, entry, wire, updates>>

\* the run stays ok while the stores come before any lookup, each of a
\* new signature at a strictly later instant than the store before it
RunAfterStore(run, signature, now) ==
    IF /\ run.ok
       /\ ~run.looked
       /\ \A i \in 1..Len(run.sigs) : run.sigs[i] # signature
       /\ (run.sigs = <<>> \/ now > run.last)
    THEN [ok |-> TRUE, sigs |-> Append(run.sigs, signature), last |-> now, looked |-> FALSE]
    ELSE NoRun

Store ==
    /\ acc = <<>>
    /\ nCalls < MaxOps
    /\ \E metadata \in CacheMetas, content \in Contents, now \in Now(clock) :
          /\ cc' \in store(cc, metadata, content.payload, content.text, now)
          /\ clock' = now
          /\ ret' = [op |-> "store", metadata |-> metadata, content |-> content]
          /\ storeRun' = RunAfterStore(storeRun, compute_metadata_signature(metadata), now)
    /\ nCalls' = nCalls + 1
    /\ UNCHANGED codecVars
    /\ UNCHANGED <<acc, plat, entry, wire, nLookups, nFound, updates>>

NextCache == Lookup \/ Store

SpecCache == InitCache /\ [][NextCache]_vars

----------------------------------------------------------------------------
(* Accelerator: ConversationAccelerator::new, then calls on it *)

\* metadata sequences given to the accelerator: two signatures
AccelMetas == {MetaA, MetaA2, MetaAB}

\* the three Instant::now() reads of one process_message call: each read is
\* taken one tick after the one before it
Reads(t) == {<<t + 1, t + 2, t + 3>>}

InitAccel ==
    /\ \E learning \in BOOLEAN, preload \in BOOLEAN :
          acc = ConversationAccelerator_new(learning, preload)
    /\ cc = NoCache
    /\ plat = <<>>
    /\ entry = <<>>
    /\ wire = <<>>
    /\ updates = <<>>
    /\ IdleHistory
    /\ IdleCodec

ProcessMessage ==
    /\ acc # <<>>
    /\ nCalls < MaxMsgs
    /\ \E metadata \in AccelMetas, content \in Contents, times \in Reads(clock) :
       \E r \in process_message(acc, metadata, content.payload, content.text, times) :
          /\ acc' = r.self
          /\ clock' = times[3]
          /\ ret' = [op |-> "process_message", metadata |-> metadata,
                     content |-> content, processing_result |-> r.result]
    /\ nCalls' = nCalls + 1
    /\ UNCHANGED codecVars
    /\ UNCHANGED <<cc, plat, entry, wire, nLookups, nFound, storeRun, updates>>

PredictNextPatterns ==
    /\ acc # <<>>
    /\ \E metadata \in AccelMetas, n \in 0..MaxN :
       \E result \in predict_next_patterns(acc, metadata, n) :
          ret' = [op |-> "predict_next_patterns", metadata |-> metadata,
                  num_predictions |-> n, result |-> result]
    /\ UNCHANGED codecVars
    /\ UNCHANGED <<cc, acc, plat, entry, wire, clock, nCalls, nLookups, nFound, storeRun, updates>>

ClassifyConversationType ==
    /\ acc # <<>>
    /\ ret' = [op |-> "classify_conversation_type",
               label |-> classify_conversation_type(acc)]
    /\ UNCHANGED codecVars
    /\ UNCHANGED <<cc, acc, plat, entry, wire, clock, nCalls, nLookups, nFound, storeRun, updates>>

NextAccel == ProcessMessage \/ PredictNextPatterns \/ ClassifyConversationType

SpecAccel == InitAccel /\ [][NextAccel]_vars

----------------------------------------------------------------------------
(* Platform: PlatformAccelerator::new, then calls on it *)

InitPlatform ==
    /\ plat = PlatformAccelerator_new
    /\ cc = NoCache
    /\ acc = <<>>
    /\ entry = <<>>
    /\ wire = <<>>
    /\ updates = <<>>
    /\ IdleHistory
    /\ IdleCodec

UpdateGlobalPatterns ==
    /\ Len(updates) < MaxUpdates
    /\ \E metadata \in CacheMetas :
          /\ plat' = update_global_patterns(plat, metadata)
          /\ updates' = Append(updates, metadata)
          /\ ret' = [op |-> "update_global_patterns", metadata |-> metadata]
    /\ UNCHANGED codecVars
    /\ UNCHANGED <<cc, acc, entry, wire, clock, nCalls, nLookups, nFound, storeRun>>

GetTopPatterns ==
    /\ \E limit \in 0..MaxN : \E result \in get_top_patterns(plat, limit) :
          ret' = [op |-> "get_top_patterns", limit |-> limit, result |-> result]
    /\ UNCHANGED codecVars
    /\ UNCHANGED <<cc, acc, plat, entry, wire, clock, nCalls, nLookups, nFound, storeRun, updates>>

GetPlatformStats ==
    /\ \E result \in get_platform_stats(plat) :
          ret' = [op |-> "get_platform_stats", stats |-> result]
    /\ UNCHANGED codecVars
    /\ UNCHANGED <<cc, acc, plat, entry, wire, clock, nCalls, nLookups, nFound, storeRun, updates>>

NextPlatform == UpdateGlobalPatterns \/ GetTopPatterns \/ GetPlatformStats

SpecPlatform == InitPlatform /\ [][NextPlatform]_vars

----------------------------------------------------------------------------
(* Entries: a MetadataEntry, serialised and read back *)

TokenIndexes == {0, 1, 42, 255, 256, 65535}
Values == {0, 7, 255, 256, 4660, 65535}
FlagBytes == {0, 1, 128, 255}

Entries ==
    [token_index : TokenIndexes, kind : MetadataKinds, value : Values, flags : FlagBytes]

InitEntry ==
    /\ entry \in Entries
    /\ wire = <<>>
    /\ cc = NoCache
    /\ acc = <<>>
    /\ plat = <<>>
    /\ updates = <<>>
    /\ IdleHistory
    /\ IdleCodec

ToBytes ==
    /\ wire' = to_bytes(entry)
    /\ ret' = [op |-> "to_bytes", entry |-> entry, result |-> wire']
    /\ UNCHANGED codecVars
    /\ UNCHANGED <<cc, acc, plat, entry, clock, nCalls, nLookups, nFound, storeRun, updates>>

FromBytes ==
    /\ wire # <<>>
    /\ ret' = [op |-> "from_bytes", bytes |-> wire, result |-> from_bytes(wire)]
    /\ UNCHANGED codecVars
    /\ UNCHANGED <<cc, acc, plat, entry, wire, clock, nCalls, nLookups, nFound, storeRun, updates>>

NextEntry == ToBytes \/ FromBytes

SpecEntry == InitEntry /\ [][NextEntry]_vars

----------------------------------------------------------------------------
(* The metadata functions on given inputs: MetadataEntry::from_bytes on     *)
(* untrusted bytes, compute_metadata_signature and                         *)
(* classify_intent_from_metadata on a metadata sequence                    *)

MaxRawLen == 7      \* lengths 0..MaxRawLen of the untrusted inputs
MaxMetaCalls == 2   \* calls made on one input

KindBytes == {0, 1, 2, 3, 4, 5, 128, 255}

SixBytes ==
    {<<t[1], t[2], k, v[1], v[2], f>> :
        t \in {<<0, 0>>, <<1, 0>>, <<255, 255>>}, k \in KindBytes,
        v \in {<<0, 7>>, <<18, 52>>}, f \in {0, 255}}

\* the first n bytes of s, zero-extended past its end
Resized(s, n) == [i \in 1..n |-> IF i <= Len(s) THEN s[i] ELSE 0]

RawInputs ==
    SixBytes \cup {Resized(s, n) : s \in {<<0, 0, 1, 0, 7, 0>>, <<1, 0, 4, 18, 52, 255>>},
                                   n \in 0..MaxRawLen}

FirstEntries ==
    {MetadataEntry_new(0, "Template", v) : v \in (0..14) \cup {65535}}
        \cup {EntryB, MetadataEntry_new(0, "Literal", 1), MetadataEntry_new(0, "Fallback", 0),
              MetadataEntry_new(0, "Fallback", 2), MetadataEntry_new(0, "LZ77", 3),
              MetadataEntry_new(0, "Semantic", 12)}

LaterEntries ==
    {<<>>, <<EntryA>>, <<EntryB>>, <<EntryA, EntryB>>,
     <<MetadataEntry_new(1, "Fallback", 0), MetadataEntry_new(2, "Template", 12)>>}

MetaSeqs == {<<>>} \cup {<<f>> \o l : f \in FirstEntries, l \in LaterEntries}

InitMetadata ==
    /\ \/ rawBytes \in RawInputs /\ meta = <<>>
       \/ rawBytes = <<>> /\ meta \in MetaSeqs
    /\ comp = <<>>
    /\ inFlight = <<>>
    /\ cc = NoCache
    /\ IdleRest
    /\ IdleHistory

MetadataRest == <<cc, acc, plat, entry, wire, clock, nLookups, nFound, storeRun, updates,
                  meta, rawBytes, comp, inFlight>>

Deserialize ==
    /\ nCalls < MaxMetaCalls
    /\ nCalls' = nCalls + 1
    /\ ret' = [op |-> "from_bytes", bytes |-> rawBytes, result |-> from_bytes(rawBytes)]
    /\ UNCHANGED MetadataRest

\* nth: how many calls in a row, this one included, were this call
ComputeMetadataSignature ==
    /\ nCalls < MaxMetaCalls
    /\ nCalls' = nCalls + 1
    /\ ret' = [op |-> "compute_metadata_signature", metadata |-> meta,
               signature |-> compute_metadata_signature(meta),
               nth |-> IF ret.op = "compute_metadata_signature" THEN ret.nth + 1 ELSE 1]
    /\ UNCHANGED MetadataRest

ClassifyIntentFromMetadata ==
    /\ nCalls < MaxMetaCalls
    /\ nCalls' = nCalls + 1
    /\ ret' = [op |-> "classify_intent_from_metadata", metadata |-> meta,
               label |-> classify_intent_from_metadata(meta)]
    /\ UNCHANGED MetadataRest

NextMetadata == Deserialize \/ ComputeMetadataSignature \/ ClassifyIntentFromMetadata

SpecMetadata == InitMetadata /\ [][NextMetadata]_vars

----------------------------------------------------------------------------
(* The compressor: Compressor::new, then register_template, compress and    *)
(* decompress calls; the payload in flight is the one compress returned or  *)
(* one received from outside                                                *)

\* ""
TextEmpty == <<>>
\* "I cannot browse the internet."
TextBrowse == <<73, 32, 99, 97, 110, 110, 111, 116, 32, 98, 114, 111, 119, 115, 101, 32, 116, 104, 101, 32, 105, 110, 116, 101, 114, 110, 101, 116, 46>>
\* "héllo wörld ✓"
TextMultiByte == <<104, 195, 169, 108, 108, 111, 32, 119, 195, 182, 114, 108, 100, 32, 226, 156, 147>>
\* "hello"
TextPlain == <<104, 101, 108, 108, 111>>
\* "I cannot fly. Sorry."
TextTrailing == <<73, 32, 99, 97, 110, 110, 111, 116, 32, 102, 108, 121, 46, 32, 83, 111, 114, 114, 121, 46>>
\* "Well, I cannot fly."
TextLeading == <<87, 101, 108, 108, 44, 32, 73, 32, 99, 97, 110, 110, 111, 116, 32, 102, 108, 121, 46>>
\* "I cannot fly as I am heavy."
TextTwoMatches == <<73, 32, 99, 97, 110, 110, 111, 116, 32, 102, 108, 121, 32, 97, 115, 32, 73, 32, 97, 109, 32, 104, 101, 97, 118, 121, 46>>
\* "Paris is nice."
TextParis == <<80, 97, 114, 105, 115, 32, 105, 115, 32, 110, 105, 99, 101, 46>>
\* "I cannot ."
TextNoSlot == <<73, 32, 99, 97, 110, 110, 111, 116, 32, 46>>
\* "I don't have access to it. Sorry"
TextAccess == <<73, 32, 100, 111, 110, 39, 116, 32, 104, 97, 118, 101, 32, 97, 99, 99, 101, 115, 115, 32, 116, 111, 32, 105, 116, 46, 32, 83, 111, 114, 114, 121>>
\* "browse the internet"
SlotBrowse == <<98, 114, 111, 119, 115, 101, 32, 116, 104, 101, 32, 105, 110, 116, 101, 114, 110, 101, 116>>
\* "x"
SlotX == <<120>>
\* "Paris"
SlotParis == <<80, 97, 114, 105, 115>>
\* "nice"
SlotNice == <<110, 105, 99, 101>>
\* "été"
SlotAccented == <<195, 169, 116, 195, 169>>
\* "Hello {0}!"
PatternHello == <<72, 101, 108, 108, 111, 32, 123, 48, 125, 33>>

Texts == {TextEmpty, TextBrowse, TextMultiByte, TextPlain, TextTrailing,
          TextLeading, TextTwoMatches, TextParis, TextNoSlot, TextAccess}

\* compress(text, template_id, slots) calls: no template given; a template and
\* its slots given; a template given without slots
CompressCalls ==
    {[text |-> t, template_id |-> None, slots |-> None] : t \in Texts}
        \cup {[text |-> TextBrowse, template_id |-> Some(c[1]), slots |-> Some(c[2])] :
                 c \in {<<1, <<SlotBrowse>>>>, <<1, <<SlotAccented>>>>, <<1, <<>>>>,
                        <<11, <<SlotParis, SlotNice>>>>, <<20, <<SlotX>>>>,
                        <<256, <<SlotX>>>>}}
        \cup {[text |-> TextBrowse, template_id |-> Some(1), slots |-> None],
              [text |-> TextParis, template_id |-> Some(1), slots |-> None],
              [text |-> TextParis, template_id |-> None, slots |-> Some(<<SlotX>>)],
              [text |-> TextPlain, template_id |-> None, slots |-> Some(<<SlotX>>)]}

RegisterCalls == {<<1, CoreTemplates[1]>>, <<256, PatternHello>>}

\* Payloads from outside: well-formed ones cut short, well-formed ones under
\* another method byte, ones holding invalid UTF-8, and ones whose length
\* fields promise more than the buffer holds
WellFormedPayloads ==
    {<<0, 1, 1>> \o U16ToBe(Len(SlotBrowse)) \o SlotBrowse,
     <<0, 11, 2>> \o U16ToBe(Len(SlotParis)) \o SlotParis \o U16ToBe(Len(SlotNice)) \o SlotNice,
     <<1, 0, 0, 0, Len(TextMultiByte)>> \o TextMultiByte,
     <<3, 0, 0, 0, Len(TextPlain)>> \o TextPlain}

TruncatedPayloads ==
    UNION {{SubSeq(p, 1, n) : n \in 0..(Len(p) - 1)} : p \in WellFormedPayloads}

MethodBytes == {0, 1, 2, 3, 4, 153, 254, 255}

RetaggedPayloads == {<<m, 0, 0, 0, Len(TextPlain)>> \o TextPlain : m \in MethodBytes}

BadUtf8Payloads ==
    {<<0, 1, 1, 0, 1, 255>>, <<0, 11, 2, 0, 1, 97, 0, 2, 195, 40>>,
     <<1, 0, 0, 0, 2, 195, 40>>, <<3, 0, 0, 0, 1, 192>>, <<255, 104, 128>>}

OverlongPayloads ==
    {<<1, 255, 255, 255, 255, 97>>, <<1, 0, 1, 0, 0, 97>>, <<1, 0, 0, 0, 2, 97>>,
     <<0, 1, 1, 255, 255, 97>>, <<0, 1, 1, 0, 2, 97>>, <<0, 1, 2, 0, 1, 97>>,
     <<0, 1, 2, 0, 1, 97, 0>>, <<0, 1, 255>>}

\* bytes after the last byte the header declares: a valid character, bytes
\* that are no UTF-8, and bytes that read as one more slot
TrailingBytes == {<<97>>, <<255, 192>>, <<0, 1, 98>>}

TrailingPayloads ==
    {p \o extra : p \in {w \in WellFormedPayloads : w[1] \in {0, 1}}, extra \in TrailingBytes}

ReceivedPayloads ==
    WellFormedPayloads \cup TruncatedPayloads \cup RetaggedPayloads
        \cup BadUtf8Payloads \cup OverlongPayloads \cup TrailingPayloads

\* format_template(template_id, slots) calls
FormatCalls ==
    {<<1, <<>>>>,
     <<1, <<<<120>>, <<110, 105, 99, 101>>>>>>,
     <<11, <<<<123, 49, 125>>, <<110, 105, 99, 101>>>>>>,
     <<11, <<<<80, 97, 114, 105, 115>>, <<123, 48, 125>>>>>>,
     <<20, <<<<120>>>>>>,
     <<256, <<<<120>>>>>>}

InitCompressor ==
    /\ comp = Compressor_new(TRUE, FALSE, None, None)
    /\ inFlight = None
    /\ meta = <<>>
    /\ rawBytes = <<>>
    /\ cc = NoCache
    /\ IdleRest
    /\ IdleHistory

CompressorRest == <<cc, acc, plat, entry, wire, clock, nCalls, nLookups, nFound, storeRun,
                    updates, meta, rawBytes>>

RegisterTemplate ==
    /\ \E call \in RegisterCalls :
          /\ comp' = register_template(comp, call[1], call[2])
          /\ ret' = [op |-> "register_template", template_id |-> call[1], pattern |-> call[2]]
    /\ UNCHANGED <<inFlight, CompressorRest>>

\* the system time read is the clock's value
Compress ==
    /\ \E call \in CompressCalls :
          \E compressed \in compress(comp, call.text, call.template_id, call.slots, clock) :
              /\ ret' = [op |-> "compress", text |-> call.text, template_id |-> call.template_id,
                         slots |-> call.slots, compressed |-> compressed]
              /\ inFlight' = Some([bytes |-> compressed.value.payload, origin |-> ret'])
    /\ UNCHANGED <<comp, CompressorRest>>

Receive ==
    /\ \E received \in ReceivedPayloads :
          /\ ret' = [op |-> "receive", payload |-> received]
          /\ inFlight' = Some([bytes |-> received, origin |-> ret'])
    /\ UNCHANGED <<comp, CompressorRest>>

Decompress ==
    /\ inFlight # None
    /\ ret' = [op |-> "decompress", payload |-> inFlight[1].bytes,
               origin |-> inFlight[1].origin,
               outcome |-> decompress(comp, inFlight[1].bytes)]
    /\ UNCHANGED <<comp, inFlight, CompressorRest>>

FormatTemplate ==
    /\ \E call \in FormatCalls :
          ret' = [op |-> "format_template", template_id |-> call[1], slots |-> call[2],
                  outcome |-> format_template(comp.template_library, call[1], call[2])]
    /\ UNCHANGED <<comp, inFlight, CompressorRest>>

NextCompressor == RegisterTemplate \/ Compress \/ Receive \/ Decompress \/ FormatTemplate

SpecCompressor == InitCompressor /\ [][NextCompressor]_vars

----------------------------------------------------------------------------
(* The conversation as a whole: either object, and the calls on it *)

InitConversation == InitCache \/ InitAccel

NextConversation == NextCache \/ NextAccel

SpecConversation == InitConversation /\ [][NextConversation]_vars

----------------------------------------------------------------------------
(* Claims *)

Sig(metadata) == compute_metadata_signature(metadata)
StoreStep == ret'.op = "store" /\ nCalls' = nCalls + 1
LookupStep == ret'.op = "lookup" /\ nCalls' = nCalls + 1
MessageStep == ret'.op = "process_message" /\ nCalls' = nCalls + 1

\* C1: for any capacity max_size, 0 included, the number of entries in the
\* cache never exceeds max_size.
C1_SizeNeverExceedsCapacity == MapLen(cc.cache) <= cc.max_size

\* C2: store removes an entry only when the cache holds max_size entries and
\* the stored signature is absent; it then removes exactly one entry, one with
\* the minimum last-used timestamp of the entries held; otherwise it removes
\* none.
C2_StoreEvictsOnlyWhenFull ==
    [][StoreStep =>
          LET removed == (DOMAIN cc.cache) \ (DOMAIN cc'.cache)
          IN IF MapLen(cc.cache) = cc.max_size /\ Sig(ret'.metadata) \notin DOMAIN cc.cache
             THEN /\ Cardinality(removed) = 1
                  /\ \A s \in removed : \A o \in DOMAIN cc.cache :
                        cc.cache[s].last_used <= cc.cache[o].last_used
             ELSE removed = {}]_vars

\* C3: a cache of capacity C >= 1 that was given, since construction, C+1
\* stores of pairwise distinct signatures at strictly increasing instants and no
\* lookup between them holds exactly C entries and not the first signature
\* stored; with C = 1 a lookup of the first signature then misses and a lookup
\* of the second hits.
C3_OverfillEvictsEarliest ==
    (cc.max_size >= 1 /\ storeRun.ok /\ Len(storeRun.sigs) = cc.max_size + 1) =>
        /\ MapLen(cc.cache) = cc.max_size
        /\ storeRun.sigs[1] \notin DOMAIN cc.cache
        /\ (cc.max_size = 1 /\ ret.op = "lookup") =>
              /\ Sig(ret.metadata) = storeRun.sigs[1] => ret.result = None
              /\ Sig(ret.metadata) = storeRun.sigs[2] => ret.result # None

C3_Witness ==
    /\ cc.max_size = 2
    /\ storeRun.ok
    /\ Len(storeRun.sigs) = 3
    /\ ret.op = "store"

\* C4: get_hit_rate is hits/(hits+misses), with hits and misses the numbers of
\* lookup calls that found and did not find an entry, and 0.0 before any
\* lookup; hits+misses is the number of lookup calls; store changes neither
\* counter.
C4_HitAccounting ==
    /\ cc.hit_count = nFound
    /\ cc.miss_count = nLookups - nFound
    /\ cc.hit_count + cc.miss_count = nLookups
    /\ LET rate == get_hit_rate(cc)
       IN IF nLookups = 0
          THEN rate[1] = 0 /\ rate[2] > 0
          ELSE rate[2] > 0 /\ rate[1] * nLookups = nFound * rate[2]

C4_Witness ==
    /\ nFound = 1
    /\ nLookups = 2
    /\ ret.op = "store"

\* C5: a process_message call with the metadata of the process_message call
\* just before it hits when that call missed; on a cache of capacity >= 1 a
\* lookup of the metadata just stored hits.
C5_HitRightAfterMiss ==
    [][/\ (/\ ret.op = "process_message"
           /\ ~ret.processing_result.cache_hit
           /\ MessageStep
           /\ ret'.metadata = ret.metadata) => ret'.processing_result.cache_hit
       /\ (/\ ret.op = "store"
           /\ cc.max_size >= 1
           /\ LookupStep
           /\ ret'.metadata = ret.metadata) => ret'.result # None]_vars

C5_Witness ==
    /\ acc # <<>>
    /\ ret.op = "process_message"
    /\ ret.processing_result.cache_hit
    /\ acc.cache.hit_count = 1
    /\ acc.cache.miss_count = 1

\* C6: every process_message call adds exactly one to the message counter; a
\* hit returns cache_hit = true and the text of the cached entry, whatever
\* text the call supplied, and leaves that entry's payload and text as they
\* were; a miss returns cache_hit = false, the supplied text and speedup 1.0.
C6_ProcessMessageResult ==
    [][MessageStep =>
          LET sig == Sig(ret'.metadata)
              result == ret'.processing_result
          IN /\ acc'.message_count = acc.message_count + 1
             /\ IF result.cache_hit
                THEN /\ sig \in DOMAIN acc.cache.cache
                     /\ result.decompressed_text = acc.cache.cache[sig].decompressed_text
                     /\ acc'.cache.cache[sig].decompressed_text =
                            acc.cache.cache[sig].decompressed_text
                     /\ acc'.cache.cache[sig].compressed_payload =
                            acc.cache.cache[sig].compressed_payload
                ELSE /\ result.decompressed_text = ret'.content.text
                     /\ result.speedup[1] = result.speedup[2]]_vars

C6_Witness ==
    /\ acc # <<>>
    /\ ret.op = "process_message"
    /\ ret.processing_result.cache_hit
    /\ ret.processing_result.decompressed_text = Some("test")
    /\ ret.content.text = None

\* C7: classify_conversation_type is "unknown" below 3 processed messages;
\* from 3 on it is "qa" when hits/(hits+misses) > 0.8, "chat" when the rate
\* is > 0.5 and not above 0.8, and "support" otherwise.
C7_Classification ==
    ret.op = "classify_conversation_type" =>
        LET hits == acc.cache.hit_count
            total == acc.cache.hit_count + acc.cache.miss_count
        IN ret.label =
              IF acc.message_count < 3 THEN "unknown"
              ELSE IF 10 * hits > 8 * total THEN "qa"
              ELSE IF 10 * hits > 5 * total THEN "chat"
              ELSE "support"

C7_Witness ==
    /\ ret.op = "classify_conversation_type"
    /\ ret.label = "qa"

C9_GlobalFrequencies ==
    LET table == plat.global_patterns
        seen == {Sig(updates[i]) : i \in 1..Len(updates)}
        Calls(s) == Cardinality({i \in 1..Len(updates) : Sig(updates[i]) = s})
    IN /\ DOMAIN table = seen
       /\ \A s \in seen : table[s] = Calls(s)
       /\ ret.op = "get_platform_stats" => ret.stats.total_patterns = Cardinality(seen)
       /\ ret.op = "get_top_patterns" =>
             /\ Len(ret.result) = IF ret.limit < Cardinality(seen) THEN ret.limit
                                  ELSE Cardinality(seen)
             /\ \A i, j \in 1..Len(ret.result) :
                   /\ ret.result[i] \in seen
                   /\ i # j => ret.result[i] # ret.result[j]
                   /\ i < j => Calls(ret.result[i]) >= Calls(ret.result[j])

C9_Witness ==
    /\ ret.op = "get_top_patterns"
    /\ ret.limit = 2
    /\ Len(updates) = 4
    /\ MapLen(plat.global_patterns) = 3
    /\ Len(ret.result) = 2

\* C10: from_bytes(to_bytes(e)) is Ok(e), and to_bytes(e) is 6 bytes: the
\* token_index big-endian, the kind byte, the value big-endian, the flags.
C10_EntryRoundTrip ==
    /\ wire # <<>> =>
          /\ Len(wire) = 6
          /\ \A i \in 1..6 : wire[i] \in 0..255
          /\ wire[1] * 256 + wire[2] = entry.token_index
          /\ wire[3] = CASE entry.kind = "Literal" -> 0
                         [] entry.kind = "Template" -> 1
                         [] entry.kind = "LZ77" -> 2
                         [] entry.kind = "Semantic" -> 3
                         [] entry.kind = "Fallback" -> 4
          /\ wire[4] * 256 + wire[5] = entry.value
          /\ wire[6] = entry.flags
    /\ ret.op = "from_bytes" => ret.result = Some(entry)

C10_Witness ==
    /\ ret.op = "from_bytes"
    /\ ret.bytes = <<1, 0, 4, 18, 52, 128>>
    /\ ret.result = Some([token_index |-> 256, kind |-> "Fallback",
                          value |-> 4660, flags |-> 128])

\* C11: from_bytes returns an error for every input whose length is not 6 and
\* for every 6-byte input whose third byte is not in 0..4; for every other
\* input it returns the entry the six bytes spell.
C11_FromBytesRejects ==
    ret.op = "from_bytes" =>
        LET b == ret.bytes
        IN IF Len(b) = 6 /\ b[3] \in 0..4
           THEN ret.result =
                    <<[token_index |-> b[1] * 256 + b[2],
                       kind |-> CASE b[3] = 0 -> "Literal"
                                  [] b[3] = 1 -> "Template"
                                  [] b[3] = 2 -> "LZ77"
                                  [] b[3] = 3 -> "Semantic"
                                  [] b[3] = 4 -> "Fallback",
                       value |-> b[4] * 256 + b[5],
                       flags |-> b[6]]>>
           ELSE ret.result = <<>>

C11_Witness ==
    /\ ret.op = "from_bytes"
    /\ ret.bytes = <<255, 255, 5, 18, 52, 255>>
    /\ ret.result = <<>>

\* C12: a compute_metadata_signature call leaves the sequence as it was and
\* returns what the call before it on that sequence returned; one entry gives
\* (kind byte << 16) | value, [A, B] gives 0x00010063 and [B, A] gives
\* 0x0002003C for A = (0, Template, 7), B = (1, Literal, 50).
C12_SignatureDeterministic ==
    [][ret'.op = "compute_metadata_signature" =>
          /\ meta' = meta
          /\ ret'.metadata = meta
          /\ ret.op = "compute_metadata_signature" => ret'.signature = ret.signature
          /\ Len(meta) = 1 =>
                ret'.signature = <<CASE meta[1].kind = "Literal" -> 0
                                     [] meta[1].kind = "Template" -> 1
                                     [] meta[1].kind = "LZ77" -> 2
                                     [] meta[1].kind = "Semantic" -> 3
                                     [] meta[1].kind = "Fallback" -> 4,
                                   meta[1].value>>
          /\ meta = <<EntryA, EntryB>> => ret'.signature = <<1, 99>>
          /\ meta = <<EntryB, EntryA>> => ret'.signature = <<2, 60>>]_vars

C12_Witness ==
    /\ ret.op = "compute_metadata_signature"
    /\ ret.nth = 2
    /\ ret.metadata = <<EntryB, EntryA>>
    /\ ret.signature = <<2, 60>>

\* C13: classify_intent_from_metadata returns "unknown" for the empty
\* sequence and otherwise a label fixed by the first entry alone: Template
\* with value 1, 3, 5, 7 "affirmative", 2, 4 "apology", 12 "thinking",
\* 10, 13 "question", any other value "unknown"; Literal "custom"; Fallback
\* "complex"; LZ77 and Semantic "unknown".
C13_IntentFromFirstEntry ==
    ret.op = "classify_intent_from_metadata" =>
        LET m == ret.metadata
        IN ret.label =
              IF Len(m) = 0 THEN "unknown"
              ELSE IF m[1].kind = "Template" /\ m[1].value \in {1, 3, 5, 7} THEN "affirmative"
              ELSE IF m[1].kind = "Template" /\ m[1].value \in {2, 4} THEN "apology"
              ELSE IF m[1].kind = "Template" /\ m[1].value = 12 THEN "thinking"
              ELSE IF m[1].kind = "Template" /\ m[1].value \in {10, 13} THEN "question"
              ELSE IF m[1].kind = "Literal" THEN "custom"
              ELSE IF m[1].kind = "Fallback" THEN "complex"
              ELSE "unknown"

C13_Witness ==
    /\ ret.op = "classify_intent_from_metadata"
    /\ Len(ret.metadata) = 3
    /\ ret.metadata[1] = [token_index |-> 0, kind |-> "Template", value |-> 4, flags |-> 0]
    /\ ret.metadata[3].kind = "Template" /\ ret.metadata[3].value = 12
    /\ ret.label = "apology"

DecompressStep == ret.op = "decompress" /\ ret.origin.op = "compress"
Templates == comp.template_library.templates
\* the number of placeholders {0}, {1}, .. of a pattern
PlaceholderCount(pattern) ==
    Cardinality({i \in 0..9 : str_find(pattern, Placeholder(i)) # None})

\* C14: for a template id registered in the library whose pattern has k
\* placeholders and k slots, decompressing the payload the binary-semantic
\* encoder produced for (id, slots) gives format_template(id, slots).
C14_TemplateRoundTrip ==
    (/\ DecompressStep
     /\ ret.origin.template_id # None
     /\ ret.origin.slots # None) =>
        LET id == ret.origin.template_id[1]
            slots == ret.origin.slots[1]
        IN (id \in DOMAIN Templates /\ Len(slots) = PlaceholderCount(Templates[id])) =>
              ret.outcome = format_template(comp.template_library, id, slots)

\* C15: a text that takes the literal path is encoded as the byte 0x01, its
\* byte length as four big-endian bytes and its bytes, and decompress of that
\* payload returns the text.
C15_LiteralRoundTrip ==
    /\ (ret.op = "compress" /\ ret.compressed.value.method = "AuraLite") =>
          ret.compressed.value.payload =
              <<1, 0, 0, Len(ret.text) \div 256, Len(ret.text) % 256>> \o ret.text
    /\ (DecompressStep /\ ret.origin.compressed.value.method = "AuraLite") =>
          ret.outcome = [ok |-> TRUE, value |-> ret.origin.text]

C15_Witness ==
    /\ DecompressStep
    /\ ret.origin.compressed.value.method = "AuraLite"
    /\ ret.origin.text = <<104, 195, 169, 108, 108, 111, 32, 119, 195, 182, 114, 108, 100, 32, 226, 156, 147>>
    /\ ret.payload = <<1, 0, 0, 0, 17>> \o ret.origin.text
    /\ ret.outcome = [ok |-> TRUE, value |-> ret.origin.text]

\* C16: with the built-in templates, decompress of the payload that
\* compress(text, None, None) returned gives the text back.
C16_EndToEndRoundTrip ==
    (/\ DecompressStep
     /\ ret.origin.template_id = None
     /\ ret.origin.slots = None
     /\ Templates = CoreTemplates) =>
        ret.outcome = [ok |-> TRUE, value |-> ret.origin.text]

\* C17 as stated: with template 1 "I cannot {0}.", encoding
\* (1, ["browse the internet"]) gives 0x00 0x01 0x01 0x00 0x14 and 20 ASCII
\* bytes, and decoding gives "I cannot browse the internet.".
C17_BrowseAsStated ==
    /\ (/\ ret.op = "compress"
        /\ ret.template_id = <<1>>
        /\ ret.slots = <<<<<<98, 114, 111, 119, 115, 101, 32, 116, 104, 101, 32, 105, 110, 116, 101, 114, 110, 101, 116>>>>>>) =>
          LET payload == ret.compressed.value.payload
          IN /\ Len(payload) = 5 + 20
             /\ SubSeq(payload, 1, 5) = <<0, 1, 1, 0, 20>>
             /\ \A i \in 6..Len(payload) : payload[i] < 128
    /\ (/\ DecompressStep
        /\ ret.origin.template_id = <<1>>
        /\ ret.origin.slots = <<<<<<98, 114, 111, 119, 115, 101, 32, 116, 104, 101, 32, 105, 110, 116, 101, 114, 110, 101, 116>>>>>>
        /\ Templates[1] = <<73, 32, 99, 97, 110, 110, 111, 116, 32, 123, 48, 125, 46>>) =>
          ret.outcome = [ok |-> TRUE, value |-> <<73, 32, 99, 97, 110, 110, 111, 116, 32, 98, 114, 111, 119, 115, 101, 32, 116, 104, 101, 32, 105, 110, 116, 101, 114, 110, 101, 116, 46>>]

\* C17, amended: the slot is 19 bytes long, so the encoding is 0x00 0x01 0x01
\* 0x00 0x13 and the 19 ASCII bytes of the slot; decoding gives "I cannot
\* browse the internet.".
C17_BrowseScenario ==
    /\ (/\ ret.op = "compress"
        /\ ret.template_id = <<1>>
        /\ ret.slots = <<<<<<98, 114, 111, 119, 115, 101, 32, 116, 104, 101, 32, 105, 110, 116, 101, 114, 110, 101, 116>>>>>>) =>
          ret.compressed.value.payload =
              <<0, 1, 1, 0, 19, 98, 114, 111, 119, 115, 101, 32, 116, 104, 101, 32, 105, 110, 116, 101, 114, 110, 101, 116>>
    /\ (/\ DecompressStep
        /\ ret.origin.template_id = <<1>>
        /\ ret.origin.slots = <<<<<<98, 114, 111, 119, 115, 101, 32, 116, 104, 101, 32, 105, 110, 116, 101, 114, 110, 101, 116>>>>>>
        /\ Templates[1] = <<73, 32, 99, 97, 110, 110, 111, 116, 32, 123, 48, 125, 46>>) =>
          ret.outcome = [ok |-> TRUE, value |-> <<73, 32, 99, 97, 110, 110, 111, 116, 32, 98, 114, 111, 119, 115, 101, 32, 116, 104, 101, 32, 105, 110, 116, 101, 114, 110, 101, 116, 46>>]

C17_Witness ==
    /\ DecompressStep
    /\ ret.origin.template_id = <<1>>
    /\ ret.origin.slots = <<<<<<98, 114, 111, 119, 115, 101, 32, 116, 104, 101, 32, 105, 110, 116, 101, 114, 110, 101, 116>>>>>>
    /\ Len(ret.payload) = 24
    /\ ret.outcome = [ok |-> TRUE, value |-> <<73, 32, 99, 97, 110, 110, 111, 116, 32, 98, 114, 111, 119, 115, 101, 32, 116, 104, 101, 32, 105, 110, 116, 101, 114, 110, 101, 116, 46>>]

\* C18: decompress returns InvalidPayload for the empty payload and
\* UnknownMethod for every payload whose first byte is none of 0x00, 0x01,
\* 0x03, 0xFF, 0x02 included.
C18_UnknownMethodRejected ==
    ret.op = "decompress" =>
        /\ ret.payload = <<>> =>
              ret.outcome = [ok |-> FALSE, error |-> [kind |-> "InvalidPayload"]]
        /\ (ret.payload # <<>> /\ ret.payload[1] \notin {0, 1, 3, 255}) =>
              ret.outcome = [ok |-> FALSE,
                             error |-> [kind |-> "UnknownMethod", byte |-> ret.payload[1]]]

C18_Witness ==
    /\ ret.op = "decompress"
    /\ ret.payload = <<2, 0, 0, 0, 5, 104, 101, 108, 108, 111>>
    /\ ret.outcome = [ok |-> FALSE, error |-> [kind |-> "UnknownMethod", byte |-> 2]]

\* C19: decompress never indexes or slices outside the payload; a payload cut
\* short, or one whose length field promises more than the buffer holds,
\* gives InvalidPayload, and one holding invalid UTF-8 gives
\* DecompressionFailed.
C19_DecompressInBounds ==
    ret.op = "decompress" =>
        /\ "panic" \notin DOMAIN ret.outcome
        /\ ret.payload \in TruncatedPayloads \cup OverlongPayloads =>
              ret.outcome = [ok |-> FALSE, error |-> [kind |-> "InvalidPayload"]]
        /\ ret.payload \in BadUtf8Payloads =>
              ret.outcome = [ok |-> FALSE, error |-> [kind |-> "DecompressionFailed"]]

C19_Witness ==
    /\ ret.op = "decompress"
    /\ ret.payload = <<0, 1, 1, 0, 19, 98, 114, 111>>
    /\ ret.outcome = [ok |-> FALSE, error |-> [kind |-> "InvalidPayload"]]

\* C20: the payload compress(text, None, None) returns is no longer than the
\* text.
C20_NeverWorse ==
    (ret.op = "compress" /\ ret.template_id = None /\ ret.slots = None) =>
        Len(ret.compressed.value.payload) <= Len(ret.text)

\* C21: compress never fails and takes one path.  Given both a template id
\* and slots it encodes them as binary-semantic whatever the library holds;
\* otherwise it encodes a template match_template can return, if there is
\* one; otherwise it encodes the text as AuraLite.  The method returned is the
\* one the payload's first byte names.
C21_PathSelection ==
    ret.op = "compress" =>
        /\ ret.compressed.ok
        /\ LET out == ret.compressed.value
               matches == match_template(comp.template_library, ret.text)
           IN /\ out.method = "BinarySemantic" <=> out.payload[1] = 0
              /\ out.method = "AuraLite" <=> out.payload[1] = 1
              /\ out.method \in {"BinarySemantic", "AuraLite"}
              /\ IF ret.template_id # <<>> /\ ret.slots # <<>>
                 THEN /\ out.method = "BinarySemantic"
                      /\ out.metadata.template_ids = <<ret.template_id[1]>>
                      /\ out.payload[2] = ret.template_id[1] % 256
                      /\ out.payload[3] = Len(ret.slots[1])
                 ELSE IF matches # {<<>>}
                 THEN /\ out.method = "BinarySemantic"
                      /\ \E m \in matches :
                            /\ out.metadata.template_ids = <<m[1][1]>>
                            /\ out.payload[2] = m[1][1]
                            /\ out.payload[3] = Len(m[1][2])
                 ELSE /\ out.method = "AuraLite"
                      /\ out.metadata.template_ids = <<>>
                      /\ out.payload = <<1, 0, 0, 0, Len(ret.text)>> \o ret.text

\* both given, the id unregistered and the text one another template matches
C21_Witness ==
    /\ ret.op = "compress"
    /\ ret.template_id = <<20>>
    /\ ret.slots = <<<<SlotX>>>>
    /\ 20 \notin DOMAIN Templates
    /\ match_template(comp.template_library, ret.text) # {<<>>}
    /\ ret.compressed.value.payload = <<0, 20, 1, 0, 1, 120>>

\* C22: format_template fails with TemplateNotFound exactly when the id is
\* not registered.  Otherwise it replaces {0}, {1}, .. in turn on the running
\* result: with "I cannot {0}." a second slot changes nothing and no slot
\* leaves {0} in place; with "{0} is {1}." the slots "{1}", "nice" give
\* "nice is nice." and the slots "Paris", "{0}" give "Paris is {0}.".
C22_FormatTemplate ==
    ret.op = "format_template" =>
        LET call == <<ret.template_id, ret.slots>>
        IN IF ret.template_id \notin DOMAIN Templates
           THEN ret.outcome = [ok |-> FALSE,
                               error |-> [kind |-> "TemplateNotFound", id |-> ret.template_id]]
           ELSE /\ ret.outcome.ok
                /\ ret.outcome.value =
                      CASE call = <<1, <<>>>> ->
                              \* "I cannot {0}."
                              <<73, 32, 99, 97, 110, 110, 111, 116, 32, 123, 48, 125, 46>>
                        [] call = <<1, <<<<120>>, <<110, 105, 99, 101>>>>>> ->
                              \* "I cannot x."
                              <<73, 32, 99, 97, 110, 110, 111, 116, 32, 120, 46>>
                        [] call = <<11, <<<<123, 49, 125>>, <<110, 105, 99, 101>>>>>> ->
                              \* "nice is nice."
                              <<110, 105, 99, 101, 32, 105, 115, 32, 110, 105, 99, 101, 46>>
                        [] call = <<11, <<<<80, 97, 114, 105, 115>>, <<123, 48, 125>>>>>> ->
                              \* "Paris is {0}."
                              <<80, 97, 114, 105, 115, 32, 105, 115, 32, 123, 48, 125, 46>>
                        [] call = <<256, <<<<120>>>>>> ->
                              \* "Hello x!"
                              <<72, 101, 108, 108, 111, 32, 120, 33>>

C22_Witness ==
    /\ ret.op = "format_template"
    /\ ret.template_id = 11
    /\ ret.slots = <<<<123, 49, 125>>, <<110, 105, 99, 101>>>>
    /\ ret.outcome = [ok |-> TRUE, value |-> <<110, 105, 99, 101, 32, 105, 115, 32, 110, 105, 99, 101, 46>>]

\* C23: lookup leaves the set of cached signatures as it was.  On a hit the
\* entry's hit_count grows by one, its last_used becomes the instant read,
\* which no entry's last_used exceeds, the cache's hit counter grows by one
\* and nothing else changes; on a miss the miss counter grows by one and
\* nothing else changes.
C23_LookupFrame ==
    [][LookupStep =>
          LET sig == Sig(ret'.metadata)
          IN /\ DOMAIN cc'.cache = DOMAIN cc.cache
             /\ cc'.max_size = cc.max_size
             /\ \A o \in (DOMAIN cc.cache) \ {sig} : cc'.cache[o] = cc.cache[o]
             /\ IF sig \in DOMAIN cc.cache
                THEN /\ ret'.result # <<>>
                     /\ cc'.cache[sig] = [cc.cache[sig] EXCEPT !.hit_count = @ + 1,
                                                               !.last_used = clock']
                     /\ \A o \in DOMAIN cc'.cache :
                           cc'.cache[o].last_used <= cc'.cache[sig].last_used
                     /\ cc'.hit_count = cc.hit_count + 1
                     /\ cc'.miss_count = cc.miss_count
                ELSE /\ ret'.result = <<>>
                     /\ cc'.hit_count = cc.hit_count
                     /\ cc'.miss_count = cc.miss_count + 1]_vars

\* the second hit on an entry stored before another one
C23_Witness ==
    /\ ret.op = "lookup"
    /\ ret.result # <<>>
    /\ ret.result[1].hit_count = 2
    /\ MapLen(cc.cache) = 2
    /\ \E o \in DOMAIN cc.cache : cc.cache[o].hit_count = 0
    /\ cc.hit_count = 2

\* C24: store on a signature the cache holds replaces that entry by one with
\* the new metadata, payload and text, hit_count 0 and the instant read as
\* last_used; the other entries, the size and the counters stay as they
\* were.
C24_StoreOverwrites ==
    [][(StoreStep /\ Sig(ret'.metadata) \in DOMAIN cc.cache) =>
          LET sig == Sig(ret'.metadata)
          IN /\ DOMAIN cc'.cache = DOMAIN cc.cache
             /\ \A o \in (DOMAIN cc.cache) \ {sig} : cc'.cache[o] = cc.cache[o]
             /\ cc'.cache[sig] = [signature |-> sig,
                                  metadata |-> ret'.metadata,
                                  compressed_payload |-> ret'.content.payload,
                                  decompressed_text |-> ret'.content.text,
                                  hit_count |-> 0,
                                  last_used |-> clock']
             /\ cc'.hit_count = cc.hit_count
             /\ cc'.miss_count = cc.miss_count
             /\ cc'.max_size = cc.max_size]_vars

\* store, a hit on the entry, then a store of other metadata with the same
\* signature
C24_Witness ==
    /\ ret.op = "store"
    /\ ret.metadata = MetaA2
    /\ nCalls = 3
    /\ nFound = 1
    /\ cc.max_size = 2
    /\ cc.hit_count = 1
    /\ DOMAIN cc.cache = {Sig(MetaA)}
    /\ cc.cache[Sig(MetaA)].metadata = MetaA2
    /\ cc.cache[Sig(MetaA)].hit_count = 0

\* C25: the accelerator's message counter, the number of processing-time
\* samples and the cache's hits + misses all equal the number of
\* process_message calls made.
C25_CountersAgree ==
    acc # <<>> =>
        /\ acc.message_count = nCalls
        /\ Len(acc.processing_times) = nCalls
        /\ acc.cache.hit_count + acc.cache.miss_count = nCalls

C25_Witness ==
    /\ acc # <<>>
    /\ nCalls = 4
    /\ acc.cache.hit_count = 2
    /\ acc.cache.miss_count = 2
    /\ Len(acc.processing_times) = 4

\* C26: a process_message call that misses, with platform learning enabled,
\* raises the count of the message's signature in platform_patterns by one
\* and no other count; a call that hits changes no count, so the counts sum
\* to the cache's miss counter.  With platform learning disabled the table
\* stays empty and predict_next_patterns returns an empty list.
C26_PatternsCountMisses ==
    [][/\ MessageStep =>
             LET sig == Sig(ret'.metadata)
                 old == acc.platform_patterns
                 new == acc'.platform_patterns
                 Count(table, k) == IF k \in DOMAIN table THEN table[k] ELSE 0
             IN IF acc.enable_platform_learning /\ ~ret'.processing_result.cache_hit
                THEN /\ DOMAIN new = (DOMAIN old) \cup {sig}
                     /\ new[sig] = Count(old, sig) + 1
                     /\ \A o \in (DOMAIN old) \ {sig} : new[o] = old[o]
                ELSE /\ DOMAIN new = DOMAIN old
                     /\ \A o \in DOMAIN old : new[o] = old[o]
       /\ acc'.enable_platform_learning =>
             SumValues(acc'.platform_patterns) = acc'.cache.miss_count
       /\ ~acc'.enable_platform_learning =>
             /\ DOMAIN acc'.platform_patterns = {}
             /\ ret'.op = "predict_next_patterns" => ret'.result = <<>>]_vars

\* hits and misses with learning enabled
C26_Witness ==
    /\ acc # <<>>
    /\ acc.enable_platform_learning
    /\ ret.op = "process_message"
    /\ ret.processing_result.cache_hit
    /\ acc.cache.hit_count = 3
    /\ acc.cache.miss_count = 2
    /\ SumValues(acc.platform_patterns) = 2

\* two metadata sequences of the same length whose entries agree in kind and
\* value, whatever their token_index and flags
SameKindsAndValues(m1, m2) ==
    /\ Len(m1) = Len(m2)
    /\ \A i \in 1..Len(m1) : m1[i].kind = m2[i].kind /\ m1[i].value = m2[i].value

\* C27: the outcome of a lookup depends on the signature alone.  Metadata
\* that differ only in token_index and flags have the same signature; a
\* lookup or a process_message call hits exactly when the signature is a key
\* of the cache, with the entry stored under it, whatever metadata that entry
\* holds; and a process_message call whose metadata has the signature of the
\* call before it returns the text that call returned and cached.
C27_SignatureAlone ==
    [][/\ LookupStep =>
             LET sig == Sig(ret'.metadata)
             IN /\ \A m \in CacheMetas :
                      SameKindsAndValues(m, ret'.metadata) => Sig(m) = sig
                /\ ret'.result # None <=> sig \in DOMAIN cc.cache
                /\ ret'.result # None =>
                      /\ ret'.result[1].metadata = cc.cache[sig].metadata
                      /\ ret'.result[1].decompressed_text =
                             cc.cache[sig].decompressed_text
       /\ MessageStep =>
             LET sig == Sig(ret'.metadata)
                 result == ret'.processing_result
             IN /\ \A m \in AccelMetas :
                      SameKindsAndValues(m, ret'.metadata) => Sig(m) = sig
                /\ result.cache_hit <=> sig \in DOMAIN acc.cache.cache
                /\ result.cache_hit =>
                      result.decompressed_text = acc.cache.cache[sig].decompressed_text
                /\ (ret.op = "process_message" /\ Sig(ret.metadata) = sig) =>
                      /\ result.cache_hit
                      /\ result.decompressed_text =
                             ret.processing_result.decompressed_text]_vars

\* a message hits the entry cached for a different metadata sequence and
\* gets that entry's text, not the one supplied with it
C27_Witness ==
    /\ acc # <<>>
    /\ ret.op = "process_message"
    /\ ret.metadata = MetaA2
    /\ ret.processing_result.cache_hit
    /\ acc.cache.cache[Sig(MetaA2)].metadata = MetaA
    /\ ret.processing_result.decompressed_text = Some("test")
    /\ ret.content.text = None

\* C28: decompress does not read past what the header declares.  A payload
\* made of a well-formed binary-semantic or AuraLite payload and further
\* bytes decompresses without error to the text of the well-formed payload.
C28_TrailingBytesIgnored ==
    ret.op = "decompress" =>
        \A p \in WellFormedPayloads :
            (/\ p[1] \in {0, 1}
             /\ Len(ret.payload) > Len(p)
             /\ SubSeq(ret.payload, 1, Len(p)) = p) =>
                /\ ret.outcome.ok
                /\ ret.outcome = decompress(comp, p)
                /\ p[1] = 1 => ret.outcome.value = SubSeq(p, 6, Len(p))

\* an AuraLite payload followed by bytes that are no UTF-8
C28_Witness ==
    /\ ret.op = "decompress"
    /\ ret.payload = <<1, 0, 0, 0, Len(TextMultiByte)>> \o TextMultiByte \o <<255, 192>>
    /\ ret.outcome = Ok(TextMultiByte)

====
